---- MODULE Spec2Model ----
(***************************************************************************)
(* A model of pfal-sim: the room box model, the light fixture, the         *)
(* controllers and the simulation loops that compose them.                 *)
(*                                                                         *)
(* The program computes in IEEE doubles.  The model computes in fixed      *)
(* point on integers that fit TLC's 32-bit range; every quantity names its *)
(* unit below.  a \div b rounds toward minus infinity; where a product     *)
(* would overflow, MulDiv splits it.                                       *)
(*                                                                         *)
(*   temperature          mC     (1e-3 degC)                               *)
(*   power                mW                                               *)
(*   time                 s                                                *)
(*   PPFD                 mPPFD  (1e-3 umol m^-2 s^-1)                     *)
(*   PPF                  mPPF   (1e-3 umol s^-1)                          *)
(*   DLI                  umol m^-2  (1e-6 mol m^-2), so that the code's   *)
(*                        "mol * 1e6" is the stored integer itself         *)
(*   dim fraction, RH     1e-3                                             *)
(*   CO2 concentration    uppm   (1e-6 ppm)                                *)
(*   vapour               mmol                                             *)
(*   pressure             Pa                                               *)
(*                                                                         *)
(* Each component is exercised by a specification of its own (SpecCO2,     *)
(* SpecSafety, ...); the components a specification does not drive stay at *)
(* their constructed values.  The variable call records the last operation *)
(* invoked, its arguments and what it returned or raised.                  *)
(***************************************************************************)
EXTENDS Integers, Sequences, FiniteSets, TLC

VARIABLES
    call,     \* the last call: [op, arguments..., ret | raised]
    co2c,     \* CO2Controller instance
    safety,   \* SafetyController instance
    fixture,  \* LightFixture instance (its configuration)
    room,     \* RoomBox instance
    pid,      \* PID instance
    ncalls,   \* the number of calls made so far (bounded specifications)
    demo,     \* demo_light_day.py: its loop variable and module-level names
    sim       \* sim_runner.py: its loop variable, accumulators and log

loops == <<demo, sim>>

vars == <<call, co2c, safety, fixture, room, pid, ncalls, demo, sim>>

NoCall == [op |-> "none"]

\* A script that is not running.
IdleLoop == [pc |-> "idle"]

\* A call: the operation, its arguments, the instance before it (for the
\* safety controller its configuration only: check reads nothing else), and
\* what it returned or raised.
Call(op, args, before, ret) ==
    [op |-> op, args |-> args, before |-> before, ret |-> ret]

\* ---------------------------------------------------------------- helpers

Min(a, b) == IF a <= b THEN a ELSE b

Max(a, b) == IF a >= b THEN a ELSE b

\* floor(a * b / c) for a >= 0, b >= 0, c > 0 without forming a * b.
MulDiv(a, b, c) == (a \div c) * b + ((a % c) * b) \div c

RECURSIVE SumOver(_, _)
\* sum(f[k] for k in keys)
SumOver(f, keys) ==
    IF keys = {} THEN 0
    ELSE LET k == CHOOSE x \in keys : TRUE
         IN  f[k] + SumOver(f, keys \ {k})

RECURSIVE SumRange(_, _, _)
\* s[lo] + ... + s[hi], halving the range
SumRange(s, lo, hi) ==
    IF lo > hi THEN 0
    ELSE IF lo = hi THEN s[lo]
    ELSE LET mid == (lo + hi) \div 2
         IN  SumRange(s, lo, mid) + SumRange(s, mid + 1, hi)

\* sum(s) of a sequence
SumSeq(s) == SumRange(s, 1, Len(s))

\* What an operation hands back: a value, or the exception it raised.
Return(v) == [raised |-> "none", value |-> v]

Raise(kind) == [raised |-> kind]

\* ---------------------------------------------------------- CO2Controller

CO2Controller_init(setpoint_ppm, hard_ceiling_ppm, door_open_lockout) ==
    [setpoint_ppm      |-> setpoint_ppm,
     hard_ceiling_ppm  |-> hard_ceiling_ppm,
     door_open_lockout |-> door_open_lockout,
     injecting         |-> FALSE]

\* The mutant of CO2Controller_step: the lights-off test is made before the
\* door lockout.
CO2Controller_step_lights_first(self, current_ppm, lights_on, door_open) ==
    IF ~lights_on
    THEN [self |-> [self EXCEPT !.injecting = FALSE], ret |-> "INJECT_OFF"]
    ELSE IF self.door_open_lockout /\ door_open
    THEN [self |-> [self EXCEPT !.injecting = FALSE], ret |-> "LOCKOUT"]
    ELSE IF current_ppm >= self.hard_ceiling_ppm
    THEN [self |-> [self EXCEPT !.injecting = FALSE], ret |-> "INJECT_OFF"]
    ELSE IF current_ppm < self.setpoint_ppm
    THEN [self |-> [self EXCEPT !.injecting = TRUE], ret |-> "INJECT_ON"]
    ELSE [self |-> [self EXCEPT !.injecting = FALSE], ret |-> "INJECT_OFF"]

\* The mutant of CO2Controller_step: an injection under way continues until
\* the ppm is 100 above the setpoint.
CO2Controller_step_hysteresis(self, current_ppm, lights_on, door_open) ==
    IF self.door_open_lockout /\ door_open
    THEN [self |-> [self EXCEPT !.injecting = FALSE], ret |-> "LOCKOUT"]
    ELSE IF ~lights_on
    THEN [self |-> [self EXCEPT !.injecting = FALSE], ret |-> "INJECT_OFF"]
    ELSE IF current_ppm >= self.hard_ceiling_ppm
    THEN [self |-> [self EXCEPT !.injecting = FALSE], ret |-> "INJECT_OFF"]
    ELSE IF current_ppm < self.setpoint_ppm + (IF self.injecting THEN 100 ELSE 0)
    THEN [self |-> [self EXCEPT !.injecting = TRUE], ret |-> "INJECT_ON"]
    ELSE [self |-> [self EXCEPT !.injecting = FALSE], ret |-> "INJECT_OFF"]

\* step(current_ppm, lights_on, door_open): the new instance and the token.
CO2Controller_step(self, current_ppm, lights_on, door_open) ==
    IF self.door_open_lockout /\ door_open
    THEN [self |-> [self EXCEPT !.injecting = FALSE], ret |-> "LOCKOUT"]
    ELSE IF ~lights_on
    THEN [self |-> [self EXCEPT !.injecting = FALSE], ret |-> "INJECT_OFF"]
    ELSE IF current_ppm >= self.hard_ceiling_ppm
    THEN [self |-> [self EXCEPT !.injecting = FALSE], ret |-> "INJECT_OFF"]
    ELSE IF current_ppm < self.setpoint_ppm
    THEN [self |-> [self EXCEPT !.injecting = TRUE], ret |-> "INJECT_ON"]
    ELSE [self |-> [self EXCEPT !.injecting = FALSE], ret |-> "INJECT_OFF"]

\* --------------------------------------------------------- SafetyController

SafetyController_init(safe_bounds) ==
    [safe_bounds |-> safe_bounds,
     last_values |-> << >>,
     unstable    |-> FALSE]

\* The mutant of SafetyController_check: only the lower bound raises emergency
\* and clamps.
SafetyController_check_low_only(self, values) ==
    LET bounded(var) == var \in DOMAIN self.safe_bounds
        lo(var) == self.safe_bounds[var][1]
        hi(var) == self.safe_bounds[var][2]
        out(var) == bounded(var) /\ values[var] < lo(var)
        clamped == [var \in DOMAIN values |->
                      IF out(var)
                      THEN Max(lo(var), Min(values[var], hi(var)))
                      ELSE values[var]]
        emergency == \E var \in DOMAIN values : out(var)
    IN  [self |-> [self EXCEPT !.last_values = clamped, !.unstable = emergency],
         ret  |-> <<clamped, emergency>>]

\* The mutant of SafetyController_check: the flag, once raised, stays raised.
SafetyController_check_latched(self, values) ==
    LET bounded(var) == var \in DOMAIN self.safe_bounds
        lo(var) == self.safe_bounds[var][1]
        hi(var) == self.safe_bounds[var][2]
        out(var) == bounded(var)
                    /\ (values[var] < lo(var) \/ values[var] > hi(var))
        clamped == [var \in DOMAIN values |->
                      IF out(var)
                      THEN Max(lo(var), Min(values[var], hi(var)))
                      ELSE values[var]]
        emergency == \E var \in DOMAIN values : out(var)
    IN  [self |-> [self EXCEPT !.last_values = clamped,
                               !.unstable = self.unstable \/ emergency],
         ret  |-> <<clamped, emergency>>]

\* check(values): the new instance and the pair (clamped, emergency).
SafetyController_check(self, values) ==
    LET bounded(var) == var \in DOMAIN self.safe_bounds
        lo(var) == self.safe_bounds[var][1]
        hi(var) == self.safe_bounds[var][2]
        out(var) == bounded(var)
                    /\ (values[var] < lo(var) \/ values[var] > hi(var))
        clamped == [var \in DOMAIN values |->
                      IF out(var)
                      THEN Max(lo(var), Min(values[var], hi(var)))
                      ELSE values[var]]
        emergency == \E var \in DOMAIN values : out(var)
    IN  [self |-> [self EXCEPT !.last_values = clamped, !.unstable = emergency],
         ret  |-> <<clamped, emergency>>]

SafetyController_is_unstable(self) == self.unstable

\* ------------------------------------------------------------------ light

\* 1.0 of a dim fraction, of a derate given to ppf_from_dim (1e-3).
ONE == 1000

\* The code's 1e-6, the guard against a zero PPFD range or a zero fixture
\* maximum: one step of the PPFD grid, the smallest positive PPFD the model has.
PPFD_EPS == 1

clamp(x, lo, hi) == Max(lo, Min(hi, x))

\* The mutant of ppf_from_dim: the fixture cannot dim below 5 %.
ppf_from_dim_min_glow(dim_frac, ppf_max, ppe_derate) ==
    (ppf_max * clamp(dim_frac, 50, ONE) * clamp(ppe_derate, 0, ONE)) \div ONE

\* ppf_max in umol/s, dim_frac and ppe_derate in 1e-3; the PPF in mPPF.
ppf_from_dim(dim_frac, ppf_max, ppe_derate) ==
    (ppf_max * clamp(dim_frac, 0, ONE) * clamp(ppe_derate, 0, ONE)) \div ONE

\* The mutant of electrical_watts: the guard tests eff_ppe < 0, so a zero
\* efficacy reaches the division.
electrical_watts_lt_guard(ppf, ppe, driver_loss, thermal_derate) ==
    LET eff_ppe == ppe * (100 - clamp(thermal_derate, 0, 90))
    IN  IF eff_ppe < 0 THEN Raise("ValueError")
        ELSE IF eff_ppe = 0 THEN Raise("ZeroDivisionError")
        ELSE LET lamp_watts == MulDiv(ppf, 1000, eff_ppe)
                 watts_in == MulDiv(lamp_watts, 100,
                                    100 - clamp(driver_loss, 0, 50))
             IN  Return(<<watts_in, watts_in>>)

\* The mutant of electrical_watts: the heat is the lamp's power, the driver's
\* loss left out.
electrical_watts_lamp_heat(ppf, ppe, driver_loss, thermal_derate) ==
    LET eff_ppe == ppe * (100 - clamp(thermal_derate, 0, 90))
    IN  IF eff_ppe <= 0 THEN Raise("ValueError")
        ELSE LET lamp_watts == MulDiv(ppf, 1000, eff_ppe)
                 watts_in == MulDiv(lamp_watts, 100,
                                    100 - clamp(driver_loss, 0, 50))
             IN  Return(<<watts_in, lamp_watts>>)

\* ppf in mPPF, ppe in 1e-1 umol/J, driver_loss and thermal_derate in 1e-2;
\* eff_ppe in 1e-3 umol/J; (watts_in, heat_watts) in mW.
electrical_watts(ppf, ppe, driver_loss, thermal_derate) ==
    LET eff_ppe == ppe * (100 - clamp(thermal_derate, 0, 90))
    IN  IF eff_ppe <= 0 THEN Raise("ValueError")
        ELSE LET lamp_watts == MulDiv(ppf, 1000, eff_ppe)
                 watts_in == MulDiv(lamp_watts, 100,
                                    100 - clamp(driver_loss, 0, 50))
                 heat_watts == watts_in
             IN  Return(<<watts_in, heat_watts>>)

\* spectrum_weights: band -> weight (1e-1); the PPF of each band.
mix_spectrum(ppf_total, spectrum_weights) ==
    LET s == SumOver(spectrum_weights, DOMAIN spectrum_weights)
    IN  IF s <= 0 THEN Raise("ValueError")
        ELSE Return([band \in DOMAIN spectrum_weights |->
                        MulDiv(ppf_total, spectrum_weights[band], s)])

\* math.exp(-0.7 * L) for a whole L >= 0, in 1e-4.
ExpNeg07Table == <<10000, 4966, 2466, 1225, 608, 302, 150, 74, 37, 18, 9, 5>>

ExpNeg07(L) == IF L + 1 <= Len(ExpNeg07Table) THEN ExpNeg07Table[L + 1] ELSE 0

Abs(x) == IF x < 0 THEN -x ELSE x

\* LAI whole, wall_reflectance in 1e-2, beam_spread_deg in degrees; u in 1e-4.
utilization_factor(LAI, wall_reflectance, beam_spread_deg) ==
    LET wall_term == 5500 + 45 * clamp(wall_reflectance, 0, 98)
        lai_term == 10000 - ExpNeg07(Max(LAI, 0))
        beam_term == 10000
                     - (1000 * Abs(120 - clamp(beam_spread_deg, 60, 150))) \div 60
        u == (((wall_term * lai_term) \div 10000) * beam_term) \div 10000
    IN  clamp(u, 3000, 9800)

\* ppf_total in mPPF, utilization in 1e-4, lit_area_m2 in 1e-1 m^2; mPPFD.
ppfd_at_canopy(ppf_total, utilization, lit_area_m2) ==
    IF lit_area_m2 <= 0 THEN Raise("ValueError")
    ELSE Return(MulDiv(ppf_total, clamp(utilization, 0, 10000),
                       1000 * lit_area_m2))

\* The mutant of integrate_dli: the samples are summed as if one second apart.
integrate_dli_no_dt(ppfd_series, dt_seconds) ==
    IF dt_seconds <= 0 THEN Raise("ValueError")
    ELSE Return(SumSeq(ppfd_series) \div 1000)

\* ppfd_series in mPPFD, dt_seconds in s; the DLI in umol m^-2.
integrate_dli(ppfd_series, dt_seconds) ==
    IF dt_seconds <= 0 THEN Raise("ValueError")
    ELSE Return(MulDiv(SumSeq(ppfd_series), dt_seconds, 1000))

\* The mutant of dli_controller_step: the floor is the supplied minimum as
\* given, not raised to 0.
dli_controller_step_raw_floor(dli_target, dli_so_far, seconds_left_in_window, ppfd_minmax) ==
    LET ppfd_min == ppfd_minmax[1]
        ppfd_max == Max(ppfd_minmax[2], ppfd_min + PPFD_EPS)
        remaining_umol == Max(0, dli_target - dli_so_far)
    IN  IF seconds_left_in_window <= 0 THEN ppfd_min
        ELSE clamp(MulDiv(remaining_umol, 1000, seconds_left_in_window),
                   ppfd_min, ppfd_max)

\* The mutant of dli_controller_step: the setpoint is not capped at the
\* maximum.
dli_controller_step_no_cap(dli_target, dli_so_far, seconds_left_in_window, ppfd_minmax) ==
    LET ppfd_min == Max(0, ppfd_minmax[1])
        remaining_umol == Max(0, dli_target - dli_so_far)
    IN  IF seconds_left_in_window <= 0 THEN ppfd_min
        ELSE Max(ppfd_min,
                 MulDiv(remaining_umol, 1000, seconds_left_in_window))

\* The mutant of dli_controller_step: the DLI already delivered is ignored, the
\* whole target taken as still owed.
dli_controller_step_ignores_so_far(dli_target, dli_so_far, seconds_left_in_window, ppfd_minmax) ==
    LET ppfd_min == Max(0, ppfd_minmax[1])
        ppfd_max == Max(ppfd_minmax[2], ppfd_min + PPFD_EPS)
        remaining_umol == Max(0, dli_target)
    IN  IF seconds_left_in_window <= 0 THEN ppfd_min
        ELSE clamp(MulDiv(remaining_umol, 1000, seconds_left_in_window),
                   ppfd_min, ppfd_max)

\* env/light.py: DLI in umol m^-2 (so remaining_umol needs no factor),
\* seconds in s, ppfd_minmax and the result in mPPFD.
dli_controller_step(dli_target, dli_so_far, seconds_left_in_window, ppfd_minmax) ==
    LET ppfd_min == Max(0, ppfd_minmax[1])
        ppfd_max == Max(ppfd_minmax[2], ppfd_min + PPFD_EPS)
        remaining_umol == Max(0, dli_target - dli_so_far)
    IN  IF seconds_left_in_window <= 0 THEN ppfd_min
        ELSE LET needed_ppfd ==
                     MulDiv(remaining_umol, 1000, seconds_left_in_window)
             IN  clamp(needed_ppfd, ppfd_min, ppfd_max)

\* control/dli_controller.py: the same controller, its clamp written out.
dli_controller_step_ctl(dli_target, dli_so_far, seconds_left_in_window, ppfd_minmax) ==
    LET ppfd_min == Max(0, ppfd_minmax[1])
        ppfd_max == Max(ppfd_minmax[2], ppfd_min + PPFD_EPS)
        remaining_umol == Max(0, dli_target - dli_so_far)
    IN  IF seconds_left_in_window <= 0 THEN ppfd_min
        ELSE LET needed_ppfd ==
                     MulDiv(remaining_umol, 1000, seconds_left_in_window)
             IN  Max(ppfd_min, Min(needed_ppfd, ppfd_max))

LightFixture_init(ppf_max, ppe, area_m2, spectrum, driver_loss, thermal_derate, wall_reflectance, beam_spread_deg) ==
    [ppf_max |-> ppf_max, ppe |-> ppe, area_m2 |-> area_m2,
     spectrum |-> spectrum, driver_loss |-> driver_loss,
     thermal_derate |-> thermal_derate,
     wall_reflectance |-> wall_reflectance,
     beam_spread_deg |-> beam_spread_deg]

\* step(dim_frac, LAI): the output record, or the first exception raised on
\* the way (mix_spectrum, then ppfd_at_canopy, then electrical_watts).
LightFixture_step(self, dim_frac, LAI) ==
    LET ppf == ppf_from_dim(dim_frac, self.ppf_max, ONE)
        bands == mix_spectrum(ppf, self.spectrum)
        u == utilization_factor(LAI, self.wall_reflectance,
                                self.beam_spread_deg)
        ppfd == ppfd_at_canopy(ppf, u, self.area_m2)
        wh == electrical_watts(ppf, self.ppe, self.driver_loss,
                               self.thermal_derate)
    IN  IF bands.raised # "none" THEN Raise(bands.raised)
        ELSE IF ppfd.raised # "none" THEN Raise(ppfd.raised)
        ELSE IF wh.raised # "none" THEN Raise(wh.raised)
        ELSE Return([ppf_total  |-> ppf,
                     ppfd       |-> ppfd.value,
                     u          |-> u,
                     bands_ppf  |-> bands.value,
                     watts_in   |-> wh.value[1],
                     heat_watts |-> wh.value[2]])

\* ------------------------------------------------------------------- room

\* 610.8 * exp(17.27 T / (T + 237.3)) in Pa at T = -10, -9, ..., 51 degC.
EsTable ==
    << 286, 309, 334, 361, 390, 421, 454, 490, 527, 568,
       611, 657, 706, 758, 813, 872, 935, 1002, 1073, 1148,
       1228, 1313, 1403, 1498, 1599, 1705, 1818, 1938, 2064, 2197,
       2338, 2487, 2644, 2809, 2984, 3168, 3361, 3565, 3780, 4006,
       4243, 4493, 4755, 5030, 5319, 5623, 5941, 6275, 6625, 6991,
       7376, 7778, 8199, 8640, 9101, 9582, 10086, 10613, 11163, 11737,
       12337, 12963 >>

\* The saturation vapour pressure (Pa) at T (mC): the table, interpolated
\* between whole degrees; T is taken into the table's range, the only range
\* update leaves a temperature in.
EsPa(T) ==
    LET Tc == clamp(T, -10000, 50999)
        i  == (Tc + 10000) \div 1000
        f  == (Tc + 10000) % 1000
    IN  EsTable[i + 1] + ((EsTable[i + 2] - EsTable[i + 1]) * f) \div 1000

\* T in mC, RH in 1e-3; the deficit in Pa.
vpd_kpa(T, RH) ==
    LET es == EsPa(T)
        ea == (RH * es) \div 1000
    IN  Max(0, es - ea)

\* es * V / (R * (T + 273.15)) in mmol; R * (T + 273.15) in J/mol.
RoomBox_n_sat(self, T) ==
    LET es == EsPa(T)
        RT == (8314 * ((T + 273150) \div 100)) \div 10000
    IN  (es * self.V_air * 1000) \div RT

\* RoomBox(T_air, T_nutr, CO2_ppm, n_vapor) and __post_init__.
RoomBox_init(T_air, T_nutr, CO2_ppm, n_vapor) ==
    LET self == [T_air |-> T_air, T_nutr |-> T_nutr, CO2_ppm |-> CO2_ppm,
                 n_vapor |-> n_vapor,
                 V_air |-> 100, UA |-> 200, C_air |-> 120000, M_v |-> 18,
                 C_nutr |-> 836, g_c |-> 2]
    IN  IF n_vapor = 0
        THEN [self EXCEPT !.n_vapor = (700 * RoomBox_n_sat(self, T_air)) \div 1000]
        ELSE self

\* The relative humidity in 1e-3.
RoomBox_RH(self) ==
    LET n_sat == RoomBox_n_sat(self, self.T_air)
    IN  Min(Max(MulDiv(self.n_vapor, 1000, n_sat), 0), 1000)

\* The arguments of update left at their defaults.
UpdateDefaults ==
    [Q_led |-> 0, Q_people |-> 0, Q_equip |-> 0, Q_HVAC_sens |-> 0,
     Q_HVAC_lat |-> 0, T_out |-> 18000, E_canopy |-> << >>, E_solution |-> 0,
     infiltration |-> 0, LAI |-> 1, dt |-> 60, CO2_inj |-> 0, PPFD |-> 0,
     canopy_area |-> 10, CO2_leaks |-> 0]

\* update(**a): Q in mW, T_out in mC, E_* and infiltration in mg/s (E_canopy
\* << >> for None), LAI whole, dt in s, CO2_inj and CO2_leaks in ng/s
\* (1e-6 mg/s), PPFD in mPPFD, canopy_area in 1e-1 m^2.  Vmax and the uptake
\* in 1e-3 umol/s, uptake_mg_s and dCO2_mg in ng/s and ng.
RoomBox_update(self, a) ==
    LET dT == ((a.Q_led + a.Q_people + a.Q_equip - a.Q_HVAC_sens
                - self.UA * (self.T_air - a.T_out)) * a.dt) \div self.C_air
        T1 == self.T_air + dT
        T_air == IF T1 < -10000 \/ T1 > 50000
                 THEN Min(Max(T1, 0), 40000) ELSE T1
        UA_nutr == 20
        dT_nutr == ((UA_nutr * (T_air - self.T_nutr) + a.E_solution) * a.dt)
                   \div self.C_nutr
        T2 == self.T_nutr + dT_nutr
        T_nutr == IF T2 < -10000 \/ T2 > 50000
                  THEN Min(Max(T2, 0), 40000) ELSE T2
        s1 == [self EXCEPT !.T_air = T_air, !.T_nutr = T_nutr]
        E_canopy == IF a.E_canopy = << >>
                    THEN self.g_c * vpd_kpa(T_air, RoomBox_RH(s1)) * a.LAI
                    ELSE a.E_canopy[1]
        dn == ((E_canopy + a.E_solution - a.Q_HVAC_lat \div self.M_v
                - a.infiltration) * a.dt) \div self.M_v
        n_vapor == Max(self.n_vapor + dn, 0)
        Vmax == 80 * a.canopy_area
        Km == 200000
        Kc == 800
        ppm == self.CO2_ppm \div 1000000
        light_term == MulDiv(a.PPFD, Vmax, Km + a.PPFD)
        uptake_umol_s == (light_term * ppm) \div (Kc + ppm)
        uptake_mg_s == (uptake_umol_s * 44) \div 1000
        dCO2_mg == (a.CO2_inj - uptake_mg_s - a.CO2_leaks) * a.dt
        mg_per_ppm == (196 * self.V_air) \div 100
        dCO2_ppm == dCO2_mg \div mg_per_ppm
        CO2_ppm == Max(self.CO2_ppm + dCO2_ppm, 0)
    IN  [s1 EXCEPT !.n_vapor = n_vapor, !.CO2_ppm = CO2_ppm]

\* state(): T_air, RH, T_nutr, CO2_ppm
RoomBox_state(self) ==
    [T_air |-> self.T_air, RH |-> RoomBox_RH(self), T_nutr |-> self.T_nutr,
     CO2_ppm |-> self.CO2_ppm]

\* -------------------------------------------------------------------- PID

\* PID(Kp, Ki, Kd, setpoint, output_limits): a limit is << >> for None.
PID_init(Kp, Ki, Kd, setpoint, output_limits) ==
    [Kp |-> Kp, Ki |-> Ki, Kd |-> Kd, setpoint |-> setpoint,
     output_limits |-> output_limits,
     last_error |-> 0, integral |-> 0, last_value |-> << >>]

\* The mutant of PID_step: the integral is held while the output is saturated.
PID_step_anti_windup(self, value, dt) ==
    LET error == self.setpoint - value
        integral == self.integral + error * dt
        derivative == IF self.last_value # << >>
                      THEN (error - self.last_error) \div dt ELSE 0
        raw == self.Kp * error + self.Ki * integral + self.Kd * derivative
        low == self.output_limits[1]
        high == self.output_limits[2]
        o1 == IF low # << >> THEN Max(low[1], raw) ELSE raw
        output == IF high # << >> THEN Min(high[1], o1) ELSE o1
        s1 == [self EXCEPT !.integral = IF output = raw THEN integral ELSE @]
    IN  IF self.last_value # << >> /\ dt = 0
        THEN [self |-> s1, ret |-> Raise("ZeroDivisionError")]
        ELSE [self |-> [s1 EXCEPT !.last_error = error,
                                  !.last_value = <<value>>],
              ret |-> Return(output)]

\* step(value, dt): the new instance and the output, or the instance as the
\* exception left it.  The division by dt is the only place that can raise.
PID_step(self, value, dt) ==
    LET error == self.setpoint - value
        integral == self.integral + error * dt
        s1 == [self EXCEPT !.integral = integral]
        derivative == IF self.last_value # << >>
                      THEN (error - self.last_error) \div dt ELSE 0
        raw == self.Kp * error + self.Ki * integral + self.Kd * derivative
        low == self.output_limits[1]
        high == self.output_limits[2]
        o1 == IF low # << >> THEN Max(low[1], raw) ELSE raw
        output == IF high # << >> THEN Min(high[1], o1) ELSE o1
    IN  IF self.last_value # << >> /\ dt = 0
        THEN [self |-> s1, ret |-> Raise("ZeroDivisionError")]
        ELSE [self |-> [s1 EXCEPT !.last_error = error,
                                  !.last_value = <<value>>],
              ret |-> Return(output)]

\* vpd(T, RH): T in mC, RH in 1e-3, the result in Pa.
vpd(T, RH) ==
    LET es == EsPa(T)
        ea == (RH * es) \div 1000
    IN  Max(0, es - ea)

\* VPDController(vpd_setpoint, Kp, Ki, Kd, output_limits): the setpoint in Pa,
\* the output in 1e-3.
VPDController_init(vpd_setpoint, Kp, Ki, Kd, output_limits) ==
    [pid |-> PID_init(Kp, Ki, Kd, vpd_setpoint, output_limits),
     vpd_setpoint |-> vpd_setpoint]

\* step(T, RH, dt): the new instance and (control_signal, current_vpd).
VPDController_step(self, T, RH, dt) ==
    LET current_vpd == vpd(T, RH)
        r == PID_step(self.pid, current_vpd, dt)
    IN  [self |-> [self EXCEPT !.pid = r.self],
         ret |-> IF r.ret.raised = "none"
                 THEN Return(<<r.ret.value, current_vpd>>) ELSE r.ret]

\* ------------------------------------------------------------------- crop

\* math.exp(-x) at x = 0, 0.25, 0.5, ..., 10, in 1e-4.
ExpNegTable ==
    << 10000, 7788, 6065, 4724, 3679, 2865, 2231, 1738, 1353, 1054,
       821, 639, 498, 388, 302, 235, 183, 143, 111, 87,
       67, 52, 41, 32, 25, 19, 15, 12, 9, 7,
       6, 4, 3, 3, 2, 2, 1, 1, 1, 1, 0 >>

\* math.exp(-x) for x >= 0 in 1e-3, in 1e-4: the table, interpolated; 0 past it.
ExpNeg(x) ==
    LET i == x \div 250
        f == x % 250
    IN  IF i + 2 > Len(ExpNegTable) THEN 0
        ELSE ExpNegTable[i + 1]
             - ((ExpNegTable[i + 1] - ExpNegTable[i + 2]) * f) \div 250

\* DLI in umol m^-2; DLI_OPT = (10, 15) mol; the factor in 1e-4.
f_DLI(DLI) ==
    LET lo == 10000000
        hi == 15000000
    IN  IF DLI < lo THEN Max(0, DLI \div (lo \div 10000))
        ELSE IF DLI > hi THEN Max(0, 10000 - (DLI - hi) \div 1000)
        ELSE 10000

\* T in mC (finite); T_OPT = 20, T_WIDTH = 5; the factor in 1e-4.  The
\* exponent, in 1e-3, is kept above -700.
f_T(T) ==
    LET d == Min(Abs(T - 20000), 40000)
        exponent == - Min((d * d) \div 50000, 700000)
    IN  ExpNeg(- exponent)

\* VPD in Pa; VPD_OPT = (0.6, 1.2) kPa; the factor in 1e-4.
f_VPD(VPD) ==
    LET lo == 600
        hi == 1200
    IN  IF VPD < lo THEN Max(0, (VPD * 10000) \div lo)
        ELSE IF VPD > hi THEN Max(0, 10000 - 5 * (VPD - hi))
        ELSE 10000

\* CO2 in uppm; CO2_OPT = 1000 ppm; the factor in 1e-4.
f_CO2(CO2) == Min(10000, CO2 \div 100000)

\* The mutant of daily_biomass_increment: the gain net of a maintenance cost
\* of 0.01 g/m2/day.
daily_biomass_increment_net(DLI, T_mean, VPD_mean, CO2_mean) ==
    (((((f_DLI(DLI) * f_T(T_mean)) \div 10000) * f_VPD(VPD_mean)) \div 10000)
       * f_CO2(CO2_mean)) \div 10000 - 100

\* ALPHA * f_DLI * f_T * f_VPD * f_CO2 with ALPHA = 1.0, in 1e-4 g/m2/day.
daily_biomass_increment(DLI, T_mean, VPD_mean, CO2_mean) ==
    (((((f_DLI(DLI) * f_T(T_mean)) \div 10000) * f_VPD(VPD_mean)) \div 10000)
       * f_CO2(CO2_mean)) \div 10000

\* ------------------------------------------------- constructed instances

\* The spectrum both scripts configure, weights in 1e-1.
StdSpectrum ==
    [b \in {"B", "G", "R", "FR"} |->
        CASE b = "B" -> 1 [] b = "G" -> 2 [] b = "R" -> 6 [] b = "FR" -> 1]

\* fixture = LightFixture(900, 2.4, 1.2, {...}, 0.04, 0.0, 0.85, 120)
StdFixture == LightFixture_init(900, 24, 12, StdSpectrum, 4, 0, 85, 120)

\* room = RoomBox(T_air=20.0, T_nutr=20.0)
StdRoom == RoomBox_init(20000, 20000, 900000000, 0)

\* VPDController(vpd_setpoint): PID(1.0, 0.0, 0.0, vpd_setpoint, (-1, 1)),
\* VPD in Pa, the output in 1e-3.
StdPID == PID_init(1, 0, 0, 900, << <<-1000>>, <<1000>> >>)

StdCO2 == CO2Controller_init(800, 1200, TRUE)

StdSafety == SafetyController_init([v \in {"T_set"} |-> <<15, 25>>])

\* ---------------------------------------------------------- CO2 controller

PpmValues == {700, 800, 900, 1000, 1100, 1200, 1300}

InitCO2 ==
    /\ call = NoCall
    /\ co2c \in {CO2Controller_init(sp, hc, lk) :
                    sp \in {800, 1000}, hc \in {1000, 1200}, lk \in BOOLEAN}
    /\ safety = StdSafety
    /\ fixture = StdFixture
    /\ room = StdRoom
    /\ pid = StdPID
    /\ ncalls = 0
    /\ demo = IdleLoop
    /\ sim = IdleLoop

CO2Step ==
    \E ppm \in PpmValues, lights \in BOOLEAN, door \in BOOLEAN :
        LET r == CO2Controller_step(co2c, ppm, lights, door)
        IN  /\ co2c' = r.self
            /\ call' = Call("CO2Controller.step",
                            [current_ppm |-> ppm, lights_on |-> lights,
                             door_open |-> door],
                            co2c, Return(r.ret))
            /\ UNCHANGED <<safety, fixture, room, pid, ncalls, loops>>

NextCO2 == CO2Step

SpecCO2 == InitCO2 /\ [][NextCO2]_vars

\* ------------------------------------------------------- safety controller

SafetyVars == {"T_set", "ppfd", "CO2_inj"}

SafetyValues == {-5, 15, 20, 25, 300}

SafetyBoundsConfigs ==
    { [v \in {"T_set", "ppfd"} |-> IF v = "T_set" THEN <<15, 25>> ELSE <<-5, 20>>],
      [v \in {"T_set"} |-> <<20, 20>>] }

InitSafety ==
    /\ call = NoCall
    /\ safety \in {SafetyController_init(b) : b \in SafetyBoundsConfigs}
    /\ co2c = StdCO2
    /\ fixture = StdFixture
    /\ room = StdRoom
    /\ pid = StdPID
    /\ ncalls = 0
    /\ demo = IdleLoop
    /\ sim = IdleLoop

SafetyCheck ==
    \E D \in SUBSET SafetyVars :
      \E values \in [D -> SafetyValues] :
        LET r == SafetyController_check(safety, values)
        IN  /\ safety' = r.self
            /\ call' = Call("SafetyController.check", [values |-> values],
                            [safe_bounds |-> safety.safe_bounds,
                             unstable |-> safety.unstable],
                            Return(r.ret))
            /\ UNCHANGED <<co2c, fixture, room, pid, ncalls, loops>>

NextSafety == SafetyCheck

SpecSafety == InitSafety /\ [][NextSafety]_vars

\* ----------------------------------------------------------- DLI controller

DliTargets == {5000000, 11200000}

DliSoFars == {0, 5000000, 12000000}

SecondsLeft == {-60, 0, 60, 46800}

PpfdMins == {-50000, 0, 120000}

PpfdMaxs == {100000, 120000, 260000}

InitDLI ==
    /\ call = NoCall
    /\ co2c = StdCO2
    /\ safety = StdSafety
    /\ fixture = StdFixture
    /\ room = StdRoom
    /\ pid = StdPID
    /\ ncalls = 0
    /\ demo = IdleLoop
    /\ sim = IdleLoop

DliArgs ==
    [dli_target : DliTargets, dli_so_far : DliSoFars,
     seconds_left_in_window : SecondsLeft,
     ppfd_minmax : PpfdMins \X PpfdMaxs]

\* A call of env/light.py's dli_controller_step.
DliStepLight ==
    \E a \in DliArgs :
        /\ call' = Call("light.dli_controller_step", a, << >>,
                        Return(dli_controller_step(a.dli_target, a.dli_so_far,
                                   a.seconds_left_in_window, a.ppfd_minmax)))
        /\ UNCHANGED <<co2c, safety, fixture, room, pid, ncalls, loops>>

\* A call of control/dli_controller.py's dli_controller_step.
DliStepCtl ==
    \E a \in DliArgs :
        /\ call' = Call("control.dli_controller_step", a, << >>,
                        Return(dli_controller_step_ctl(a.dli_target, a.dli_so_far,
                                   a.seconds_left_in_window, a.ppfd_minmax)))
        /\ UNCHANGED <<co2c, safety, fixture, room, pid, ncalls, loops>>

NextDLI == DliStepLight \/ DliStepCtl

SpecDLI == InitDLI /\ [][NextDLI]_vars

\* ------------------------------------------------------------ light fixture

ZeroSpectrum == [b \in {"B", "R"} |-> 0]

FixtureConfigs ==
    {LightFixture_init(900, ppe, area, sp, dl, td, 85, 120) :
        ppe \in {-10, 0, 20, 24}, area \in {-5, 0, 12},
        sp \in {StdSpectrum, ZeroSpectrum}, dl \in {4, 60},
        td \in {0, 50, 100}}

DimFracs == {-100, 0, 500, 1000, 1200}

LAIs == {-1, 0, 1, 3}

InitLight ==
    /\ call = NoCall
    /\ fixture \in FixtureConfigs
    /\ co2c = StdCO2
    /\ safety = StdSafety
    /\ room = StdRoom
    /\ pid = StdPID
    /\ ncalls = 0
    /\ demo = IdleLoop
    /\ sim = IdleLoop

FixtureStep ==
    \E dim \in DimFracs, lai \in LAIs :
        /\ call' = Call("LightFixture.step", [dim_frac |-> dim, LAI |-> lai],
                        fixture, LightFixture_step(fixture, dim, lai))
        /\ UNCHANGED <<co2c, safety, fixture, room, pid, ncalls, loops>>

NextLight == FixtureStep

SpecLight == InitLight /\ [][NextLight]_vars

\* --------------------------------------------------------------- room box

\* The most calls a bounded specification makes.
MaxCalls == 3

RoomConfigs ==
    {RoomBox_init(T, T, c, 0) : T \in {20000, 39000}, c \in {1000000, 900000000}}

AnyDts == {-60, 0, 60}

\* The arguments of update under in-range inputs: LED heat with its light or
\* neither, the HVAC command of either sign, a cool or a hot outside, a CO2
\* leak or none, dt = 60 s.
RoomArgs ==
    {[UpdateDefaults EXCEPT
         !.Q_led = IF lit THEN 390625 ELSE 0,
         !.PPFD = IF lit THEN 250000 ELSE 0,
         !.Q_HVAC_sens = hvac, !.T_out = T_out,
         !.CO2_leaks = leak, !.canopy_area = 12] :
      lit \in BOOLEAN, hvac \in {-10000, 10000}, T_out \in {18000, 45000},
      leak \in {0, 10000000}}

\* The arguments of update as the simulation loop gives them in a lit step,
\* under any dt.
RoomArgsAnyDt ==
    {[UpdateDefaults EXCEPT
         !.Q_led = 390625, !.PPFD = 250000, !.Q_HVAC_sens = -10000,
         !.canopy_area = 12, !.dt = dt] : dt \in AnyDts}

\* One call of update.
RoomUpdateWith(args) ==
    /\ ncalls < MaxCalls
    /\ \E a \in args :
          /\ room' = RoomBox_update(room, a)
          /\ call' = Call("RoomBox.update", a, room, Return(<< >>))
    /\ ncalls' = ncalls + 1
    /\ UNCHANGED <<co2c, safety, fixture, pid, loops>>

RoomUpdate == RoomUpdateWith(RoomArgs)

InitRoom ==
    /\ call = NoCall
    /\ room \in RoomConfigs
    /\ co2c = StdCO2
    /\ safety = StdSafety
    /\ fixture = StdFixture
    /\ pid = StdPID
    /\ ncalls = 0
    /\ demo = IdleLoop
    /\ sim = IdleLoop

NextRoom == RoomUpdate

SpecRoom == InitRoom /\ [][NextRoom]_vars

\* ----------------------------------------------- operations taking a timestep

RoomUpdateAnyDt == RoomUpdateWith(RoomArgsAnyDt)

PpfdSeries == {<< >>, <<200000>>, <<200000, 240000>>}

IntegrateDli ==
    \E series \in PpfdSeries, dt \in AnyDts :
        /\ call' = Call("integrate_dli", [ppfd_series |-> series, dt |-> dt],
                        << >>, integrate_dli(series, dt))
        /\ UNCHANGED <<co2c, safety, fixture, room, pid, ncalls, loops>>

PidValues == {500, 900, 1200}

\* One call of step.
PidStepWith(values, dts) ==
    /\ ncalls < MaxCalls
    /\ \E value \in values, dt \in dts :
          LET r == PID_step(pid, value, dt)
          IN  /\ pid' = r.self
              /\ call' = Call("PID.step", [value |-> value, dt |-> dt], pid, r.ret)
    /\ ncalls' = ncalls + 1
    /\ UNCHANGED <<co2c, safety, fixture, room, loops>>

PidStep == PidStepWith(PidValues, AnyDts)

InitTimestep ==
    /\ call = NoCall
    /\ room = StdRoom
    /\ pid \in {PID_init(1, ki, kd, 900, << <<-1000>>, <<1000>> >>) :
                   ki \in {0, 1}, kd \in {0, 1}}
    /\ co2c = StdCO2
    /\ safety = StdSafety
    /\ fixture = StdFixture
    /\ ncalls = 0
    /\ demo = IdleLoop
    /\ sim = IdleLoop

NextTimestep == RoomUpdateAnyDt \/ IntegrateDli \/ PidStep

SpecTimestep == InitTimestep /\ [][NextTimestep]_vars

\* ------------------------------------------------------------- demo loop

\* light_hours = 13 in both scripts
light_hours == 13

window_seconds == light_hours * 3600

\* ppfd_minmax = (120.0, 260.0) in both scripts
ppfd_minmax == <<120000, 260000>>

\* dt = 60 in the demo
demo_dt == 60

\* The targets, PPFD ranges and LAIs the demo is run under: its own
\* (11.2 mol, (120, 260), 1.0) among them, and targets below, at and above what
\* each range and the fixture can deliver.
DemoTargets == {5000000, 5616000, 11200000, 12000000, 16000000}

DemoRanges == {ppfd_minmax, <<120000, 400000>>}

DemoLAIs == {0, 1}

InitDemo ==
    /\ call = NoCall
    /\ fixture = StdFixture
    /\ demo \in [pc : {"loop"}, t : {0}, series : {<< >>}, dli_so_far : {0},
                 lai : DemoLAIs, target_dli : DemoTargets,
                 ppfd_minmax : DemoRanges]
    /\ sim = IdleLoop
    /\ co2c = StdCO2
    /\ safety = StdSafety
    /\ room = StdRoom
    /\ pid = StdPID
    /\ ncalls = 0

\* min(1.0, needed_ppfd / max(_max, 1e-6)) in 1e-3
DimFor(needed_ppfd, max_ppfd) ==
    Min(ONE, (needed_ppfd * ONE) \div Max(max_ppfd, PPFD_EPS))

\* One pass of the body of "for t in range(0, window_seconds, dt)".
DemoStep ==
    /\ demo.pc = "loop"
    /\ demo.t < window_seconds
    /\ LET seconds_left == window_seconds - demo.t
           needed_ppfd == dli_controller_step(demo.target_dli, demo.dli_so_far,
                                              seconds_left, demo.ppfd_minmax)
           full == LightFixture_step(fixture, ONE, demo.lai)
           dim == DimFor(needed_ppfd, full.value.ppfd)
           out == LightFixture_step(fixture, dim, demo.lai)
           series == Append(demo.series, out.value.ppfd)
           dli == integrate_dli(series, demo_dt)
       IN  /\ demo' = [demo EXCEPT !.series = series,
                                   !.dli_so_far = dli.value,
                                   !.t = demo.t + demo_dt]
           /\ call' = Call("LightFixture.step",
                           [dim_frac |-> dim, LAI |-> demo.lai], fixture, out)
    /\ UNCHANGED <<co2c, safety, fixture, room, pid, ncalls, sim>>

\* The range is exhausted: the demo prints the DLI achieved.
DemoDone ==
    /\ demo.pc = "loop"
    /\ demo.t >= window_seconds
    /\ demo' = [demo EXCEPT !.pc = "done"]
    /\ UNCHANGED <<call, co2c, safety, fixture, room, pid, ncalls, sim>>

NextDemo == DemoStep \/ DemoDone

SpecDemo == InitDemo /\ [][NextDemo]_vars

\* ------------------------------------------------------- simulation loop

SIM_DAYS == 30

DT_MIN == 1

\* The days of the SIM_DAYS the model runs.
MaxSimDays == 2

N_STEPS == Min(SIM_DAYS, MaxSimDays) * 24 * (60 \div DT_MIN)

\* LAI = 1.0
SIM_LAI == 1

\* T_set = 20.0
T_set == 20000

\* DLI_target = 12.0
DLI_target == 12000000

\* floor(mean(xs)) of a non-empty sequence of naturals, no sum formed beyond
\* Len(xs) squared.
Mean(xs) ==
    LET n == Len(xs)
    IN  SumSeq([i \in 1..n |-> xs[i] \div n])
        + SumSeq([i \in 1..n |-> xs[i] % n]) \div n

\* [records[i][key] for i in range(len(records) - n, len(records))]
LastOf(records, n, key) ==
    [i \in 1..n |-> records[Len(records) - n + i][key]]

\* The mutant of EndOfDay: the boundary is taken one step late.
EndOfDay_late(step) == step > 0 /\ step % (24 * (60 \div DT_MIN)) = 0

\* (step+1) % (24 * (60 // DT_MIN)) == 0
EndOfDay(step) == (step + 1) % (24 * (60 \div DT_MIN)) = 0

\* growth: the arguments of each call of daily_biomass_increment so far.
InitSim ==
    /\ call = NoCall
    /\ room = StdRoom
    /\ fixture = StdFixture
    /\ sim = [pc |-> "loop", step |-> 0, ppfd_series |-> << >>,
              DLI_so_far |-> 0, biomass_fw |-> 0, records |-> << >>,
              growth |-> << >>]
    /\ demo = IdleLoop
    /\ co2c = StdCO2
    /\ safety = StdSafety
    /\ pid = StdPID
    /\ ncalls = 0

\* One pass of the body of "for step in range(N_STEPS)".
SimStep ==
    /\ sim.pc = "loop"
    /\ sim.step < N_STEPS
    /\ LET steps_per_day == 24 * (60 \div DT_MIN)
           t_in_day == (sim.step % steps_per_day) * DT_MIN * 60
           lights_on == t_in_day < window_seconds
           full == LightFixture_step(fixture, ONE, SIM_LAI)
           dim_frac ==
               IF lights_on
               THEN DimFor(dli_controller_step(DLI_target, sim.DLI_so_far,
                                               window_seconds - t_in_day,
                                               ppfd_minmax),
                           full.value.ppfd)
               ELSE 0
           light_out == LightFixture_step(fixture, dim_frac, SIM_LAI).value
           ppfd_series == Append(sim.ppfd_series, light_out.ppfd)
           Q_HVAC_sens == IF room.T_air > T_set + 500 THEN -10000
                          ELSE IF room.T_air < T_set - 500 THEN 10000
                          ELSE 0
           a == [UpdateDefaults EXCEPT
                    !.Q_led = light_out.heat_watts,
                    !.Q_HVAC_sens = Q_HVAC_sens,
                    !.T_out = 18000, !.LAI = SIM_LAI, !.dt = DT_MIN * 60,
                    !.PPFD = light_out.ppfd, !.canopy_area = fixture.area_m2]
           room1 == RoomBox_update(room, a)
           state == RoomBox_state(room1)
           DLI_so_far == MulDiv(SumSeq(ppfd_series), DT_MIN * 60, 1000)
           record == [time |-> sim.step * DT_MIN, PPFD |-> light_out.ppfd,
                      DLI_so_far |-> DLI_so_far, T |-> state.T_air,
                      RH |-> state.RH, VPD |-> vpd_kpa(state.T_air, state.RH),
                      CO2 |-> state.CO2_ppm, EC |-> 15, pH |-> 60,
                      act_LED |-> IF dim_frac > 0 THEN "ON" ELSE "OFF",
                      act_HVAC |-> IF Q_HVAC_sens < 0 THEN "COOL"
                                   ELSE IF Q_HVAC_sens > 0 THEN "HEAT"
                                   ELSE "IDLE",
                      LED_W |-> light_out.watts_in,
                      HVAC_W |-> Abs(Q_HVAC_sens)]
           records == Append(sim.records, record)
           end_of_day == EndOfDay(sim.step)
           mean_T == Mean(LastOf(records, steps_per_day, "T"))
           mean_VPD == Mean(LastOf(records, steps_per_day, "VPD"))
           mean_CO2 == Mean(LastOf(records, steps_per_day, "CO2"))
       IN  /\ room' = room1
           /\ call' = Call("RoomBox.update", a, room, Return(<< >>))
           /\ sim' = [sim EXCEPT
                 !.step = sim.step + 1,
                 !.records = records,
                 !.biomass_fw =
                     IF end_of_day
                     THEN sim.biomass_fw
                          + daily_biomass_increment(DLI_so_far, mean_T,
                                                    mean_VPD, mean_CO2)
                     ELSE sim.biomass_fw,
                 !.growth =
                     IF end_of_day
                     THEN Append(sim.growth,
                                 [DLI |-> DLI_so_far, T_mean |-> mean_T,
                                  VPD_mean |-> mean_VPD, CO2_mean |-> mean_CO2])
                     ELSE sim.growth,
                 !.DLI_so_far = IF end_of_day THEN 0 ELSE DLI_so_far,
                 !.ppfd_series = IF end_of_day THEN << >> ELSE ppfd_series]
    /\ UNCHANGED <<co2c, safety, fixture, pid, ncalls, demo>>

\* The range is exhausted: the log is saved and the final biomass printed.
SimDone ==
    /\ sim.pc = "loop"
    /\ sim.step >= N_STEPS
    /\ sim' = [sim EXCEPT !.pc = "done"]
    /\ UNCHANGED <<call, co2c, safety, fixture, room, pid, ncalls, demo>>

NextSim == SimStep \/ SimDone

SpecSim == InitSim /\ [][NextSim]_vars

\* ------------------------------------------------------------ integrate_dli

\* series = [ppfd] * int(hours * 3600 / dt)
ConstSeries(ppfd, hours, dt) == [i \in 1..((hours * 3600) \div dt) |-> ppfd]

TestPpfds == {200000, 240000}

TestHours == {12, 13}

\* Steps that divide both windows, and two (7 s, 7000 s) that divide neither.
TestDts == {7, 60, 600, 3600, 7000}

\* test_dli_200_12h and test_dli_240_13h, for any of the constants they fix.
TestDli ==
    \E ppfd \in TestPpfds, hours \in TestHours, dt \in TestDts :
        /\ call' = Call("test_dli", [ppfd |-> ppfd, hours |-> hours, dt |-> dt],
                        << >>, integrate_dli(ConstSeries(ppfd, hours, dt), dt))
        /\ UNCHANGED <<co2c, safety, fixture, room, pid, ncalls, loops>>

SeriesSamples == {0, 200000, 240500}

ShortSeries ==
    UNION {[1..n -> SeriesSamples] : n \in 0..3}

SeriesDts == {-60, 0, 1, 7, 60}

\* integrate_dli on a short series of unequal samples.
IntegrateSeries ==
    \E series \in ShortSeries, dt \in SeriesDts :
        /\ call' = Call("integrate_dli", [ppfd_series |-> series, dt |-> dt],
                        << >>, integrate_dli(series, dt))
        /\ UNCHANGED <<co2c, safety, fixture, room, pid, ncalls, loops>>

InitIntegrate ==
    /\ call = NoCall
    /\ room = StdRoom
    /\ pid = StdPID
    /\ co2c = StdCO2
    /\ safety = StdSafety
    /\ fixture = StdFixture
    /\ ncalls = 0
    /\ demo = IdleLoop
    /\ sim = IdleLoop

NextIntegrate == TestDli \/ IntegrateSeries

SpecIntegrate == InitIntegrate /\ [][NextIntegrate]_vars

\* ----------------------------------------------------------- control_step

\* Sensor values in 1e-1 of their unit (ec 1.2 is 12, ph 5.8 is 58).
OPTIMAL_RANGES ==
    [air_temp |-> <<180, 220>>, humidity |-> <<600, 800>>,
     co2 |-> <<8000, 12000>>, ppfd |-> <<2000, 4000>>,
     solution_temp |-> <<180, 220>>, ec |-> <<12, 18>>, ph |-> <<58, 62>>]

control_hvac(current, target_range) ==
    IF current < target_range[1] THEN "HEAT_ON"
    ELSE IF current > target_range[2] THEN "COOL_ON"
    ELSE "HVAC_IDLE"

control_humidifier(current, target_range) ==
    IF current < target_range[1] THEN "HUMIDIFY_ON"
    ELSE IF current > target_range[2] THEN "DEHUMIDIFY_ON"
    ELSE "HUMIDITY_IDLE"

\* The mutant of control_co2: a value on the lower bound counts as below it.
control_co2_inclusive(current, target_range) ==
    IF current <= target_range[1] THEN "CO2_INJECT_ON"
    ELSE IF current > target_range[2] THEN "VENTILATE_ON"
    ELSE "CO2_IDLE"

control_co2(current, target_range) ==
    IF current < target_range[1] THEN "CO2_INJECT_ON"
    ELSE IF current > target_range[2] THEN "VENTILATE_ON"
    ELSE "CO2_IDLE"

control_light(current, target_range) ==
    IF current < target_range[1] THEN "LIGHTS_UP"
    ELSE IF current > target_range[2] THEN "LIGHTS_DOWN"
    ELSE "LIGHTS_IDLE"

control_solution_temp(current, target_range) ==
    IF current < target_range[1] THEN "HEAT_SOLUTION_ON"
    ELSE IF current > target_range[2] THEN "COOL_SOLUTION_ON"
    ELSE "SOLUTION_IDLE"

control_ec(current, target_range) ==
    IF current < target_range[1] THEN "ADD_NUTRIENTS"
    ELSE IF current > target_range[2] THEN "DILUTE_SOLUTION"
    ELSE "EC_IDLE"

control_ph(current, target_range) ==
    IF current < target_range[1] THEN "ADD_PH_UP"
    ELSE IF current > target_range[2] THEN "ADD_PH_DOWN"
    ELSE "PH_IDLE"

\* CONTROL_MAP[sensor](current, target_range)
CONTROL_MAP(sensor, current, target_range) ==
    CASE sensor = "air_temp" -> control_hvac(current, target_range)
      [] sensor = "humidity" -> control_humidifier(current, target_range)
      [] sensor = "co2" -> control_co2(current, target_range)
      [] sensor = "ppfd" -> control_light(current, target_range)
      [] sensor = "solution_temp" -> control_solution_temp(current, target_range)
      [] sensor = "ec" -> control_ec(current, target_range)
      [] sensor = "ph" -> control_ph(current, target_range)

control_step(sensor_values) ==
    [sensor \in {s \in DOMAIN sensor_values : s \in DOMAIN OPTIMAL_RANGES} |->
        CONTROL_MAP(sensor, sensor_values[sensor], OPTIMAL_RANGES[sensor])]

\* The sensors of a reading: the seven with a range and one without.
SensorNames == DOMAIN OPTIMAL_RANGES \cup {"door"}

\* A sensor's value below, on the lower bound of, inside, on the upper bound
\* of, and above its range (any five values for a sensor without a range).
SensorLevel(sensor, level) ==
    IF sensor \in DOMAIN OPTIMAL_RANGES
    THEN LET r == OPTIMAL_RANGES[sensor]
         IN  <<r[1] - 1, r[1], (r[1] + r[2]) \div 2, r[2], r[2] + 1>>[level]
    ELSE level - 1

\* Readings of no, one or two sensors at any levels, and of all eight at one
\* level.
SensorReadings ==
    UNION {{[s \in D |-> SensorLevel(s, lv[s])] : lv \in [D -> 1..5]} :
              D \in {X \in SUBSET SensorNames : Cardinality(X) <= 2}}
    \cup {[s \in SensorNames |-> SensorLevel(s, l)] : l \in 1..5}

\* A reading arrives; control_step has not seen it yet.
InitControl ==
    /\ call \in {Call("reading", [sensor_values |-> sv], << >>, Return(<< >>)) :
                   sv \in SensorReadings}
    /\ room = StdRoom
    /\ pid = StdPID
    /\ co2c = StdCO2
    /\ safety = StdSafety
    /\ fixture = StdFixture
    /\ ncalls = 0
    /\ demo = IdleLoop
    /\ sim = IdleLoop

\* actions = control_step(sensor_values)
ControlStep ==
    /\ call.op = "reading"
    /\ call' = Call("control_step", call.args, << >>,
                    Return(control_step(call.args.sensor_values)))
    /\ UNCHANGED <<co2c, safety, fixture, room, pid, ncalls, loops>>

NextControl == ControlStep

SpecControl == InitControl /\ [][NextControl]_vars

\* ------------------------------------------------------ PID under dt > 0

\* Limits on both sides, on one side only, and the default (None, None).
PidLimits ==
    {<< <<-1000>>, <<1000>> >>, << << >>, <<1000>> >>, << <<-1000>>, << >> >>,
     << << >>, << >> >>}

\* The setpoint 900 (0.9 kPa for a VPD controller, whose default limits
\* (-1, 1) are the first of PidLimits); the gains 0 or 1.
PidConfigs ==
    {PID_init(1, Ki, Kd, 900, limits) :
        Ki \in {0, 1}, Kd \in {0, 1}, limits \in PidLimits}

\* On the setpoint, near it on either side, and far enough to saturate.
PidInputs == {-5000, 500, 900, 1200}

PositiveDts == {1, 60}

PidStepPositiveDt == PidStepWith(PidInputs, PositiveDts)

\* One call of VPDController.step, pid being the controller's PID: a humid
\* cool room and a dry hot one.
VpdStep ==
    /\ ncalls < MaxCalls
    /\ \E in \in {<<20000, 900>>, <<35000, 300>>}, dt \in PositiveDts :
          LET c == [pid |-> pid, vpd_setpoint |-> pid.setpoint]
              r == VPDController_step(c, in[1], in[2], dt)
          IN  /\ pid' = r.self.pid
              /\ call' = Call("VPDController.step",
                              [T |-> in[1], RH |-> in[2], dt |-> dt], pid, r.ret)
    /\ ncalls' = ncalls + 1
    /\ UNCHANGED <<co2c, safety, fixture, room, loops>>

InitPID ==
    /\ call = NoCall
    /\ pid \in PidConfigs
    /\ room = StdRoom
    /\ co2c = StdCO2
    /\ safety = StdSafety
    /\ fixture = StdFixture
    /\ ncalls = 0
    /\ demo = IdleLoop
    /\ sim = IdleLoop

NextPID == PidStepPositiveDt \/ VpdStep

SpecPID == InitPID /\ [][NextPID]_vars

\* ------------------------------------------------------------ crop growth

\* A day's DLI (umol m^-2): negative, none, below, in and above the optimum
\* band, and past the end of the overshoot penalty.
GrowthDLIs == {-1000000, 0, 5000000, 10000000, 12000000, 15000000, 20000000, 30000000}

\* Mean air temperatures (mC).
GrowthTs == {-5000, 15000, 20000, 26000, 60000}

\* Mean VPDs (Pa).
GrowthVPDs == {-200, 0, 300, 600, 900, 1200, 2000, 4000}

\* Mean CO2 (uppm): negative, none, below, on and above CO2_OPT.
GrowthCO2s == {-100000000, 0, 500000000, 1000000000, 1500000000}

\* A day's DLI and means are at hand; the growth model has not been called.
InitCrop ==
    /\ call \in {Call("day", [DLI |-> d, T_mean |-> t, VPD_mean |-> v, CO2_mean |-> c],
                      << >>, Return(<< >>)) :
                   d \in GrowthDLIs, t \in GrowthTs, v \in GrowthVPDs, c \in GrowthCO2s}
    /\ room = StdRoom
    /\ pid = StdPID
    /\ co2c = StdCO2
    /\ safety = StdSafety
    /\ fixture = StdFixture
    /\ ncalls = 0
    /\ demo = IdleLoop
    /\ sim = IdleLoop

\* daily_biomass_increment(DLI, mean_T, mean_VPD, mean_CO2)
Grow ==
    /\ call.op = "day"
    /\ LET a == call.args
       IN  call' = Call("daily_biomass_increment", a, << >>,
                        Return(daily_biomass_increment(a.DLI, a.T_mean,
                                                       a.VPD_mean, a.CO2_mean)))
    /\ UNCHANGED <<co2c, safety, fixture, room, pid, ncalls, loops>>

NextCrop == Grow

SpecCrop == InitCrop /\ [][NextCrop]_vars

\* ------------------------------------------------------------------ claims

\* C2: CO2Controller.step returns the result of the priority order: door open
\* with the lockout enabled gives LOCKOUT whatever the other inputs; else
\* lights off gives INJECT_OFF; else ppm >= hard ceiling gives INJECT_OFF; else
\* ppm < setpoint gives INJECT_ON; else INJECT_OFF.
C2_PriorityOrder ==
    call.op = "CO2Controller.step" =>
        LET a == call.args
            c == call.before
            locked == c.door_open_lockout /\ a.door_open
            ret == call.ret.value
        IN  /\ locked => ret = "LOCKOUT"
            /\ ~locked /\ ~a.lights_on => ret = "INJECT_OFF"
            /\ ~locked /\ a.lights_on /\ a.current_ppm >= c.hard_ceiling_ppm
                  => ret = "INJECT_OFF"
            /\ ~locked /\ a.lights_on /\ a.current_ppm < c.hard_ceiling_ppm
                  /\ a.current_ppm < c.setpoint_ppm
                  => ret = "INJECT_ON"
            /\ ~locked /\ a.lights_on /\ a.current_ppm < c.hard_ceiling_ppm
                  /\ a.current_ppm >= c.setpoint_ppm
                  => ret = "INJECT_OFF"

\* C2's case: the door is open with the lockout enabled while the lights are on
\* and the ppm is below the setpoint, and the step returned LOCKOUT.
C2_Witness ==
    /\ call.op = "CO2Controller.step"
    /\ call.before.door_open_lockout /\ call.args.door_open
    /\ call.args.lights_on
    /\ call.args.current_ppm < call.before.setpoint_ppm
    /\ call.ret.value = "LOCKOUT"

\* C3: SafetyController.check returns a bounded value strictly inside its bound
\* unchanged, a value outside it as the nearest bound, an unbounded value
\* unchanged; emergency is true exactly when some bounded value was clamped.
C3_ClampAndFlag ==
    call.op = "SafetyController.check" =>
        LET values == call.args.values
            bounds == call.before.safe_bounds
            clamped == call.ret.value[1]
            emergency == call.ret.value[2]
        IN  /\ DOMAIN clamped = DOMAIN values
            /\ \A v \in DOMAIN values :
                 /\ v \notin DOMAIN bounds => clamped[v] = values[v]
                 /\ v \in DOMAIN bounds =>
                      /\ bounds[v][1] < values[v] /\ values[v] < bounds[v][2]
                            => clamped[v] = values[v]
                      /\ values[v] < bounds[v][1] => clamped[v] = bounds[v][1]
                      /\ values[v] > bounds[v][2] => clamped[v] = bounds[v][2]
            /\ emergency <=> \E v \in DOMAIN values :
                                v \in DOMAIN bounds /\ clamped[v] # values[v]
            /\ (\A v \in DOMAIN values :
                    v \in DOMAIN bounds =>
                       bounds[v][1] < values[v] /\ values[v] < bounds[v][2])
                  => ~emergency

\* C3's case: one bounded value above its bound was clamped to it, another
\* bounded value inside its bound and an unbounded value passed through, and
\* emergency was raised.
C3_Witness ==
    /\ call.op = "SafetyController.check"
    /\ DOMAIN call.args.values = SafetyVars
    /\ DOMAIN call.before.safe_bounds = {"T_set", "ppfd"}
    /\ call.args.values["T_set"] = 300
    /\ call.ret.value[1]["T_set"] = 25
    /\ call.args.values["ppfd"] = 15
    /\ call.ret.value[1]["ppfd"] = 15
    /\ call.ret.value[1]["CO2_inj"] = 300
    /\ call.ret.value[2] = TRUE

IsDliCall ==
    call.op \in {"light.dli_controller_step", "control.dli_controller_step"}

\* C4 as stated: with seconds_left_in_window <= 0, dli_controller_step returns
\* the min of the supplied ppfd_minmax, for every (min, max) pair.
C4_ClosedWindowReturnsSuppliedMin ==
    IsDliCall /\ call.args.seconds_left_in_window <= 0
        => call.ret.value = call.args.ppfd_minmax[1]

\* C4 as amended: with seconds_left_in_window <= 0, dli_controller_step returns
\* the floor max(0, min), for every target, dli_so_far and (min, max) pair; that
\* is the supplied min whenever min >= 0.
C4_ClosedWindowReturnsFloor ==
    IsDliCall /\ call.args.seconds_left_in_window <= 0
        => /\ call.ret.value = Max(0, call.args.ppfd_minmax[1])
           /\ call.args.ppfd_minmax[1] >= 0
                 => call.ret.value = call.args.ppfd_minmax[1]

\* C4's case: the window is closed, DLI is still owed, and the floor came back.
C4_Witness ==
    /\ IsDliCall
    /\ call.args.seconds_left_in_window <= 0
    /\ call.args.dli_target > call.args.dli_so_far
    /\ call.args.ppfd_minmax[1] > 0
    /\ call.ret.value = call.args.ppfd_minmax[1]

\* (dli_target - dli_so_far) * 1e6 / seconds_left_in_window in mPPFD, the
\* quotient C5 names (seconds_left_in_window > 0).
C5_Needed(a) ==
    IF a.dli_target >= a.dli_so_far
    THEN MulDiv(a.dli_target - a.dli_so_far, 1000, a.seconds_left_in_window)
    ELSE - MulDiv(a.dli_so_far - a.dli_target, 1000, a.seconds_left_in_window)

C9_InvalidAsStated(f) ==
    \/ f.area_m2 <= 0
    \/ SumOver(f.spectrum, DOMAIN f.spectrum) <= 0
    \/ f.ppe * (100 - f.thermal_derate) <= 0

\* C9 as stated: LightFixture.step raises the invalid-configuration error, and
\* returns no record, whenever area <= 0, the weights sum to <= 0, or
\* ppe * (1 - thermal_derate) <= 0.
C9_InvalidConfigRaises ==
    call.op = "LightFixture.step" /\ C9_InvalidAsStated(call.before)
        => call.ret = Raise("ValueError")

\* C9 as amended: the same, the effective efficacy being
\* ppe * (1 - clamp(thermal_derate, 0, 0.9)), which is <= 0 exactly when
\* ppe <= 0.
C9_InvalidConfigRaisesClamped ==
    call.op = "LightFixture.step" =>
        LET f == call.before
            eff == f.ppe * (100 - clamp(f.thermal_derate, 0, 90))
        IN  /\ (eff <= 0) <=> (f.ppe <= 0)
            /\ (\/ f.area_m2 <= 0
                \/ SumOver(f.spectrum, DOMAIN f.spectrum) <= 0
                \/ eff <= 0)
                  => call.ret = Raise("ValueError")

\* C9's case: everything is valid but the efficacy, which is zero, and the step
\* raised.
C9_Witness ==
    /\ call.op = "LightFixture.step"
    /\ call.before.area_m2 > 0
    /\ SumOver(call.before.spectrum, DOMAIN call.before.spectrum) > 0
    /\ call.before.ppe = 0
    /\ call.args.dim_frac = 500
    /\ call.ret = Raise("ValueError")

\* A fixture whose every parameter is inside its documented range.
ValidFixture(f) ==
    /\ f.area_m2 > 0
    /\ SumOver(f.spectrum, DOMAIN f.spectrum) > 0
    /\ f.ppe > 0
    /\ 0 <= f.thermal_derate /\ f.thermal_derate <= 90
    /\ 0 <= f.driver_loss /\ f.driver_loss <= 50

\* C10: on a valid fixture, for dim in [0, 1] and LAI >= 0, step returns
\* heat_watts = watts_in = ppf / (ppe * (1 - thermal_derate)) / (1 - driver_loss).
C10_HeatEqualsInput ==
    /\ call.op = "LightFixture.step"
    /\ ValidFixture(call.before)
    /\ 0 <= call.args.dim_frac /\ call.args.dim_frac <= ONE
    /\ call.args.LAI >= 0
    => /\ call.ret.raised = "none"
       /\ LET f == call.before
              out == call.ret.value
              lamp == MulDiv(out.ppf_total, 1000, f.ppe * (100 - f.thermal_derate))
          IN  /\ out.watts_in = MulDiv(lamp, 100, 100 - f.driver_loss)
              /\ out.heat_watts = out.watts_in

\* C10's case: the reference fixture derated by half, at half power: 450 umol/s
\* at 1.2 umol/J and 4 % driver loss is 390.625 W in and as heat.
C10_Witness ==
    /\ call.op = "LightFixture.step"
    /\ ValidFixture(call.before)
    /\ call.before.ppe = 24 /\ call.before.thermal_derate = 50
    /\ call.args.dim_frac = 500 /\ call.args.LAI = 1
    /\ call.ret.raised = "none"
    /\ call.ret.value.watts_in = 390625
    /\ call.ret.value.heat_watts = 390625

\* C1: after any sequence of RoomBox.update calls with in-range inputs (every
\* dt > 0), CO2_ppm >= 0, the relative humidity is in [0, 1], and T_air and
\* T_nutr both lie within [0, 40] degC.
C1_RoomInvariants ==
    call.op = "RoomBox.update" =>
        /\ room.CO2_ppm >= 0
        /\ 0 <= RoomBox_RH(room) /\ RoomBox_RH(room) <= 1000
        /\ 0 <= room.T_air /\ room.T_air <= 40000
        /\ 0 <= room.T_nutr /\ room.T_nutr <= 40000

\* C8: RoomBox.update, integrate_dli and PID.step reject dt <= 0 with an error:
\* no result, and the room state and the controller memory as they were.
C8_NonPositiveDtRejected ==
    /\ call.op \in {"RoomBox.update", "integrate_dli", "PID.step"}
    /\ call.args.dt <= 0
    => /\ call.ret.raised # "none"
       /\ call.op = "RoomBox.update" => room = call.before
       /\ call.op = "PID.step" => pid = call.before

\* The DLI (umol m^-2) a constant PPFD (mPPFD) delivers over the window.
C6_WindowDli(ppfd) == MulDiv(ppfd, window_seconds, 1000)

\* The PPFD bounds and the fixture maximum permit reaching the target: the
\* target lies between what the floor and what the lower of the ceiling and the
\* fixture's full output deliver over the window.
C6_Reachable ==
    LET lo == Max(0, demo.ppfd_minmax[1])
        hi == Max(demo.ppfd_minmax[2], lo + PPFD_EPS)
        full == LightFixture_step(fixture, ONE, demo.lai).value.ppfd
    IN  /\ lo <= full
        /\ C6_WindowDli(lo) <= demo.target_dli
        /\ demo.target_dli <= C6_WindowDli(Min(hi, full))

\* C6: over one light window of the closed loop (controller, dim fraction,
\* fixture step, sample appended, DLI recomputed, every dt seconds), whenever
\* the bounds and the fixture permit reaching the target, the DLI at window
\* close is within 0.05 mol of it.
C6_DliWithinTolerance ==
    demo.pc = "done" /\ C6_Reachable
        => Abs(demo.dli_so_far - demo.target_dli) <= 50000

\* C6's case: the reference run (13 h, 11.2 mol, (120, 260), LAI 1) has closed
\* its window with the target met.
C6_Witness ==
    /\ demo.pc = "done"
    /\ demo.target_dli = 11200000 /\ demo.ppfd_minmax = <<120000, 260000>>
    /\ demo.lai = 1
    /\ Len(demo.series) = 780
    /\ C6_Reachable
    /\ Abs(demo.dli_so_far - demo.target_dli) <= 50000

\* Not a claim: a run whose target the bounds do not permit misses it.
DemoUnreachableMisses ==
    demo.pc = "done" /\ ~C6_Reachable
        => Abs(demo.dli_so_far - demo.target_dli) > 50000

\* The commands a step of the loop hands to RoomBox.update, as the safety
\* controller would be given them.
C7_Commands == [Q_HVAC_sens |-> call.args.Q_HVAC_sens, Q_led |-> call.args.Q_led]

\* C7: in every step of the simulation loop the safety controller's check is
\* applied to the commands before they reach RoomBox.update (so its snapshot
\* holds what update was given) and its emergency flag is surfaced for the
\* step (in the step's record).
C7_SafetyCheckedEveryStep ==
    sim.pc = "loop" /\ sim.step > 0 =>
        /\ safety.last_values # << >>
        /\ \A v \in DOMAIN safety.last_values :
              v \in DOMAIN C7_Commands => safety.last_values[v] = C7_Commands[v]
        /\ "emergency" \in DOMAIN sim.records[Len(sim.records)]

\* The factors a series is scaled by.
C11_Factors == {0, 2, 3}

\* p * H * 3600 / 1e6 mol, in umol m^-2 (p in mPPFD).
C11_Expected(ppfd, hours) == MulDiv(ppfd, hours * 3600, 1000)

\* integrate_dli(series, dt) = sum(series) * dt / 1e6 and is linear in the
\* series: the integral of the series scaled by k is k times the integral, to
\* within the rounding of the last digit kept.
C11_SumAndLinear ==
    call.op = "integrate_dli" /\ call.args.dt > 0 =>
        LET series == call.args.ppfd_series
            dt == call.args.dt
        IN  /\ call.ret = Return(MulDiv(SumSeq(series), dt, 1000))
            /\ \A k \in C11_Factors :
                  LET scaled == [i \in 1..Len(series) |-> k * series[i]]
                      r == integrate_dli(scaled, dt).value
                  IN  /\ k * call.ret.value <= r
                      /\ r <= k * call.ret.value + k

\* C11 as stated: integrate_dli is sum * dt / 1e6, linear in the series, and a
\* constant PPFD p sampled over H hours at any dt > 0 yields p * H * 3600 / 1e6
\* (to the 0.01 mol the reference example allows).
C11_ConstantAtAnyDt ==
    /\ C11_SumAndLinear
    /\ call.op = "test_dli" /\ call.args.dt > 0 =>
          /\ call.ret.raised = "none"
          /\ Abs(call.ret.value - C11_Expected(call.args.ppfd, call.args.hours))
                <= 10000

\* C11 as amended: integrate_dli is sum * dt / 1e6, linear in the series, and
\* a constant PPFD p sampled over H hours yields exactly p * H * 3600 / 1e6 at
\* every dt > 0 that divides H * 3600; at any other dt the int(H * 3600 / dt)
\* samples stop short of H hours and the result falls short by less than
\* p * dt / 1e6.
C11_ConstantAtDividingDt ==
    /\ C11_SumAndLinear
    /\ call.op = "test_dli" /\ call.args.dt > 0 =>
          LET a == call.args
              expected == C11_Expected(a.ppfd, a.hours)
          IN  /\ call.ret.raised = "none"
              /\ (a.hours * 3600) % a.dt = 0 => call.ret.value = expected
              /\ (a.hours * 3600) % a.dt # 0 =>
                    /\ call.ret.value < expected
                    /\ expected - call.ret.value < MulDiv(a.ppfd, a.dt, 1000)

\* C11's case: 200 umol m^-2 s^-1 over 12 h at dt = 60 s integrated to
\* 8.64 mol.
C11_Witness ==
    /\ call.op = "test_dli"
    /\ call.args = [ppfd |-> 200000, hours |-> 12, dt |-> 60]
    /\ call.ret = Return(8640000)

\* 24 * (60 // DT_MIN), the steps of one day.
C12_StepsPerDay == 24 * (60 \div DT_MIN)

\* The mean of a key over the records of day d (1, 2, ...) alone.
C12_DayMean(d, key) ==
    Mean([i \in 1..C12_StepsPerDay |->
             sim.records[(d - 1) * C12_StepsPerDay + i][key]])

\* C12: the running DLI and the PPFD buffer are cleared at each day boundary
\* and at no other step: at the first step of a day both are empty, inside a day
\* the buffer holds every sample since the day began and the DLI is its
\* integral; the growth model has been called once per finished day, with the
\* means of that day's records alone.
C12_DailyAccumulatorsReset ==
    sim.pc \in {"loop", "done"} =>
        LET in_day == sim.step % C12_StepsPerDay
        IN  /\ Len(sim.ppfd_series) = in_day
            /\ in_day = 0 => sim.DLI_so_far = 0
            /\ sim.DLI_so_far = MulDiv(SumSeq(sim.ppfd_series), DT_MIN * 60, 1000)
            /\ \A i \in 1..in_day :
                  sim.ppfd_series[i] = sim.records[sim.step - in_day + i].PPFD
            /\ Len(sim.growth) = sim.step \div C12_StepsPerDay
            /\ in_day = 0 =>
                  \A d \in 1..Len(sim.growth) :
                      /\ sim.growth[d].T_mean = C12_DayMean(d, "T")
                      /\ sim.growth[d].VPD_mean = C12_DayMean(d, "VPD")
                      /\ sim.growth[d].CO2_mean = C12_DayMean(d, "CO2")
                      /\ sim.growth[d].DLI =
                            sim.records[d * C12_StepsPerDay].DLI_so_far

\* C12's case: the first step of the second day has run after a lit first day:
\* the buffer holds its one sample, and the growth model was called once, with
\* the first day's DLI.
C12_Witness ==
    /\ sim.pc = "loop"
    /\ sim.step = C12_StepsPerDay + 1
    /\ Len(sim.ppfd_series) = 1
    /\ sim.records[C12_StepsPerDay].DLI_so_far > 11000000
    /\ sim.DLI_so_far < 100000
    /\ Len(sim.growth) = 1

\* C13: the running biomass total never decreases over the simulation: a step
\* changes it only at a day boundary, and then by the value
\* daily_biomass_increment returns for that day's DLI and means, which is >= 0.
C13_BiomassMonotone ==
    [][sim.pc = "loop" =>
          /\ sim'.biomass_fw >= sim.biomass_fw
          /\ sim'.biomass_fw # sim.biomass_fw => EndOfDay(sim.step)
          /\ Len(sim'.growth) > Len(sim.growth) =>
                LET g == sim'.growth[Len(sim'.growth)]
                    inc == daily_biomass_increment(g.DLI, g.T_mean, g.VPD_mean,
                                                   g.CO2_mean)
                IN  /\ inc >= 0
                    /\ sim'.biomass_fw = sim.biomass_fw + inc]_vars

\* C13's case: the first day has closed and its increment, a positive one, is
\* in the total.
C13_Witness ==
    /\ sim.pc = "loop"
    /\ sim.step = 24 * (60 \div DT_MIN)
    /\ Len(sim.growth) = 1
    /\ sim.biomass_fw > 0

\* Each ranged sensor's vocabulary: its low, high and idle tokens.
C14_Vocabulary ==
    [air_temp |-> <<"HEAT_ON", "COOL_ON", "HVAC_IDLE">>,
     humidity |-> <<"HUMIDIFY_ON", "DEHUMIDIFY_ON", "HUMIDITY_IDLE">>,
     co2 |-> <<"CO2_INJECT_ON", "VENTILATE_ON", "CO2_IDLE">>,
     ppfd |-> <<"LIGHTS_UP", "LIGHTS_DOWN", "LIGHTS_IDLE">>,
     solution_temp |-> <<"HEAT_SOLUTION_ON", "COOL_SOLUTION_ON", "SOLUTION_IDLE">>,
     ec |-> <<"ADD_NUTRIENTS", "DILUTE_SOLUTION", "EC_IDLE">>,
     ph |-> <<"ADD_PH_UP", "ADD_PH_DOWN", "PH_IDLE">>]

\* C14: control_step gives every sensor of the reading that has an optimal
\* range exactly one token of its own vocabulary (the low token when the value
\* is below the range, the high token when above, the idle token when
\* lower <= value <= upper), and leaves sensors without a range out.
C14_TokenPerRangedSensor ==
    call.op = "control_step" =>
        LET values == call.args.sensor_values
            actions == call.ret.value
        IN  /\ DOMAIN C14_Vocabulary = DOMAIN OPTIMAL_RANGES
            /\ DOMAIN actions = DOMAIN values \cap DOMAIN OPTIMAL_RANGES
            /\ \A s \in DOMAIN actions :
                  LET lo == OPTIMAL_RANGES[s][1]
                      hi == OPTIMAL_RANGES[s][2]
                      voc == C14_Vocabulary[s]
                  IN  /\ values[s] < lo => actions[s] = voc[1]
                      /\ values[s] > hi => actions[s] = voc[2]
                      /\ lo <= values[s] /\ values[s] <= hi => actions[s] = voc[3]

\* C14's case: a reading of a cold room and of a sensor without a range gave
\* HEAT_ON for air_temp and nothing for the other.
C14_Witness ==
    /\ call.op = "control_step"
    /\ DOMAIN call.args.sensor_values = {"air_temp", "door"}
    /\ call.args.sensor_values["air_temp"] = 179
    /\ call.ret.value = [s \in {"air_temp"} |-> "HEAT_ON"]

\* The HVAC command's contribution to the air-temperature change of the update
\* just made (mC): the change with the command less the change without it.
C15_HvacEffect ==
    RoomBox_update(call.before, call.args).T_air
    - RoomBox_update(call.before, [call.args EXCEPT !.Q_HVAC_sens = 0]).T_air

\* C15: in the simulation loop the HVAC command given to RoomBox.update cools
\* the room (negative contribution) whenever T_air > T_set + 0.5, heats it
\* (positive contribution) whenever T_air < T_set - 0.5, and is zero inside the
\* deadband; the logged HVAC state (COOL / HEAT / IDLE) agrees with the effect.
C15_HvacOpposesDeviation ==
    sim.pc = "loop" /\ call.op = "RoomBox.update" =>
        LET T == call.before.T_air
            logged == sim.records[Len(sim.records)].act_HVAC
        IN  /\ T > T_set + 500 => C15_HvacEffect < 0
            /\ T < T_set - 500 => C15_HvacEffect > 0
            /\ T_set - 500 <= T /\ T <= T_set + 500
                  => call.args.Q_HVAC_sens = 0 /\ C15_HvacEffect = 0
            /\ logged = "COOL" <=> C15_HvacEffect < 0
            /\ logged = "HEAT" <=> C15_HvacEffect > 0
            /\ logged = "IDLE" <=> C15_HvacEffect = 0

C16_IsPidCall == call.op \in {"PID.step", "VPDController.step"}

\* The measured value the PID was given in the last call.
C16_Value ==
    IF call.op = "PID.step" THEN call.args.value ELSE call.ret.value[2]

\* The output the PID returned in the last call.
C16_Output ==
    IF call.op = "PID.step" THEN call.ret.value ELSE call.ret.value[1]

\* C16: after any sequence of PID.step calls with dt > 0 every output lies
\* within the configured limits, the integral has grown by error * dt in every
\* call whether or not the output was saturated, and the derivative term is 0
\* in the first call.
C16_OutputLimitedIntegralFree ==
    C16_IsPidCall =>
        LET c == call.before
            error == c.setpoint - C16_Value
            low == c.output_limits[1]
            high == c.output_limits[2]
            o1 == IF low # << >> THEN Max(low[1], c.Kp * error + c.Ki * pid.integral)
                  ELSE c.Kp * error + c.Ki * pid.integral
            first == IF high # << >> THEN Min(high[1], o1) ELSE o1
        IN  /\ call.ret.raised = "none"
            /\ low # << >> => C16_Output >= low[1]
            /\ high # << >> => C16_Output <= high[1]
            /\ pid.integral = c.integral + error * call.args.dt
            /\ c.last_value = << >> => C16_Output = first

\* C16's case: a later call whose output sat on the upper limit while the
\* integral went on growing.
C16_Witness ==
    /\ C16_IsPidCall
    /\ call.before.last_value # << >>
    /\ call.before.output_limits[2] = <<1000>>
    /\ C16_Output = 1000
    /\ call.before.Kp * (call.before.setpoint - C16_Value) > 1000
    /\ pid.integral > call.before.integral

\* C17: the safety controller's memory is not latched: after any sequence of
\* checks is_unstable() is the emergency result of the last check alone and
\* last_values its clamped mapping alone, as a controller that had made no
\* earlier check would hold them; a clean check after an emergency clears the
\* flag.
C17_MemoryOfLastCheckOnly ==
    call.op = "SafetyController.check" =>
        LET fresh == SafetyController_check(
                         SafetyController_init(call.before.safe_bounds),
                         call.args.values)
        IN  /\ SafetyController_is_unstable(safety) = call.ret.value[2]
            /\ safety.last_values = call.ret.value[1]
            /\ safety = fresh.self
            /\ call.ret.value = fresh.ret

\* C17's case: the controller was unstable, a check of in-bound values came
\* back clean, and the flag is down.
C17_Witness ==
    /\ call.op = "SafetyController.check"
    /\ call.before.unstable
    /\ call.args.values = [v \in {"T_set"} |-> 20]
    /\ call.ret.value[2] = FALSE
    /\ ~SafetyController_is_unstable(safety)
    /\ safety.last_values = [v \in {"T_set"} |-> 20]

\* C18: CO2Controller has no hysteresis: what step returns depends on
\* (current_ppm, lights_on, door_open) and the configuration only, not on the
\* injecting flag earlier calls left (the same call on the controller with the
\* flag inverted returns the same and leaves the same controller), and after
\* every call injecting is true exactly when the call returned INJECT_ON.
C18_NoHysteresis ==
    call.op = "CO2Controller.step" =>
        LET a == call.args
            other == CO2Controller_step(
                         [call.before EXCEPT !.injecting = ~call.before.injecting],
                         a.current_ppm, a.lights_on, a.door_open)
        IN  /\ call.ret.value = other.ret
            /\ co2c = other.self
            /\ co2c.injecting <=> call.ret.value = "INJECT_ON"

\* C18's case: an injecting controller, lights on and door shut, met a ppm on
\* the setpoint, returned INJECT_OFF and stopped injecting.
C18_Witness ==
    /\ call.op = "CO2Controller.step"
    /\ call.before.injecting
    /\ call.args.lights_on /\ ~call.args.door_open
    /\ call.args.current_ppm = call.before.setpoint_ppm
    /\ call.args.current_ppm < call.before.hard_ceiling_ppm
    /\ call.ret.value = "INJECT_OFF"
    /\ ~co2c.injecting

\* The index in the log of the last step of the light window of the day the
\* step just made belongs to.
C19_WindowClose ==
    ((sim.step - 1) \div C12_StepsPerDay) * C12_StepsPerDay
    + window_seconds \div (DT_MIN * 60)

\* C19: in every simulation step whose time of day is outside the light window
\* the light output is zero (dim fraction 0, PPFD 0, LED heat and input watts
\* 0) and DLI-so-far is what it was at window close, until the day boundary
\* resets it.
C19_DarkOutsideWindow ==
    /\ sim.pc = "loop"
    /\ sim.step > 0
    /\ ((sim.step - 1) % C12_StepsPerDay) * DT_MIN * 60 >= window_seconds
    => LET record == sim.records[sim.step]
           at_close == sim.records[C19_WindowClose].DLI_so_far
       IN  /\ call.op = "RoomBox.update"
           /\ record.act_LED = "OFF"
           /\ record.PPFD = 0 /\ call.args.PPFD = 0
           /\ record.LED_W = 0 /\ call.args.Q_led = 0
           /\ record.DLI_so_far = at_close
           /\ sim.DLI_so_far = IF EndOfDay(sim.step - 1) THEN 0 ELSE at_close

\* C19's case: a step in the dark of the first day, after a window that
\* delivered its DLI: no light, no LED heat, and the DLI as at window close.
C19_Witness ==
    /\ sim.pc = "loop"
    /\ sim.step = 1000
    /\ sim.records[780].PPFD > 0
    /\ sim.records[1000].PPFD = 0
    /\ sim.records[1000].LED_W = 0
    /\ call.args.Q_led = 0
    /\ sim.DLI_so_far = sim.records[780].DLI_so_far
    /\ sim.DLI_so_far > 11000000

\* ALPHA = 1.0 g/m2/day, in 1e-4.
ALPHA == 10000

\* C20: each of f_DLI, f_T, f_VPD and f_CO2 is in [0, 1] for every input,
\* negative ones included, so daily_biomass_increment is in [0, ALPHA].
C20_FactorsInUnitRange ==
    call.op = "daily_biomass_increment" =>
        LET a == call.args
        IN  /\ 0 <= f_DLI(a.DLI) /\ f_DLI(a.DLI) <= 10000
            /\ 0 <= f_T(a.T_mean) /\ f_T(a.T_mean) <= 10000
            /\ 0 <= f_VPD(a.VPD_mean) /\ f_VPD(a.VPD_mean) <= 10000
            /\ 0 <= f_CO2(a.CO2_mean) /\ f_CO2(a.CO2_mean) <= 10000
            /\ 0 <= call.ret.value /\ call.ret.value <= ALPHA

====
